---- MODULE Spec2Model ----
(***************************************************************************)
(* My-Zootopia: animals_web_generator.py.                                  *)
(*                                                                         *)
(* Python values are tagged pairs: <<"str", s>>, <<"dict", items>> with    *)
(* items the insertion-ordered sequence of <<key, value>> pairs,           *)
(* <<"list", elems>>.  A call that raises yields <<"raise", exception>>.   *)
(* Text (an HTML string) is the sequence of the string pieces it is the    *)
(* concatenation of: an f-string f"a{x}b" is <<"a", x, "b">>, and + is \o. *)
(* Templates are sequences of single characters.                           *)
(***************************************************************************)
EXTENDS Integers, Sequences, FiniteSets, TLC

VARIABLES
    pc,             \* position of the run
    raised,         \* the exception that ended the run, "" when none
    attribute,      \* group_by_attribute's attribute
    sub_attribute,  \* group_by_attribute's sub_attribute
    animal_choice,  \* get_filtered_animals_html: the query
    animals,        \* the records fetched / passed in
    grouped,        \* the bucket map: sequence of <<key, bucket>>
    choices,        \* inputs read by the running get_user_choice_with_answers
    skin_type,      \* the selection
    animal_html,    \* the composed content
    html_template,  \* the template loaded
    final_html,     \* the text handed to save_data
    saved_file,     \* the output file: <<"absent">> or <<"file", text>>
    query_calls,    \* calls of get_user_choice
    fetch_calls,    \* calls of load_remote_data
    iterations,     \* iterations of get_filtered_animals_html's loop begun
    console         \* the set of lines printed

vars == <<pc, raised, attribute, sub_attribute, animal_choice, animals, grouped,
          choices, skin_type, animal_html, html_template, final_html, saved_file,
          query_calls, fetch_calls, iterations, console>>

----------------------------------------------------------------------------
(* Bounds *)

MaxAnimals == 3      \* records passed to one group_by_attribute call
MaxPieces == 3       \* pieces a template is put together from
MaxFetched == 2      \* records one remote fetch returns
MaxInputs == 2       \* inputs read by one get_user_choice_with_answers call
MaxIterations == 2   \* iterations of get_filtered_animals_html's loop

----------------------------------------------------------------------------
(* Python values *)

Str(s) == <<"str", s>>
Dict(items) == <<"dict", items>>
List(elems) == <<"list", elems>>
Raise(exc) == <<"raise", exc>>

IsStr(v) == v[1] = "str"
IsDict(v) == v[1] = "dict"
IsList(v) == v[1] = "list"
IsRaise(v) == v[1] = "raise"

\* key in d
HasKey(d, key) == \E i \in 1..Len(d[2]) : d[2][i][1] = key

\* d[key]
Item(d, key) == d[2][CHOOSE i \in 1..Len(d[2]) : d[2][i][1] = key][2]

\* obj.get(key, default): AttributeError when obj is not a dict
py_get(obj, key, default) ==
    IF IsRaise(obj) THEN obj
    ELSE IF ~IsDict(obj) THEN Raise("AttributeError")
    ELSE IF HasKey(obj, key) THEN Item(obj, key)
    ELSE default

\* hash(v) succeeds: dict and list are unhashable
Hashable(v) == IsStr(v)

\* bool(v)
Truthy(v) == IF IsStr(v) THEN v[2] # "" ELSE v[2] # <<>>

Range(s) == {s[i] : i \in 1..Len(s)}

SeqsUpTo(S, n) == UNION {[1..k -> S] : k \in 0..n}

----------------------------------------------------------------------------
(* group_by_attribute *)

\* lines 79-82 with "" as the default key
GroupKeyNoDefault(animal, attr, sub) ==
    IF sub # ""
    THEN py_get(py_get(animal, attr, Dict(<<>>)), sub, Str(""))
    ELSE py_get(animal, attr, Str(""))

\* lines 79-82: the key of one record
GroupKey(animal, attr, sub) ==
    IF sub # ""
    THEN py_get(py_get(animal, attr, Dict(<<>>)), sub, Str("Unknown"))
    ELSE py_get(animal, attr, Str("Unknown"))

BucketIndex(g, key) == CHOOSE i \in 1..Len(g) : g[i][1] = key

\* lines 84-86 with the bucket overwritten instead of appended to
AddToBucketOverwrite(g, key, animal) ==
    IF \E i \in 1..Len(g) : g[i][1] = key
    THEN [g EXCEPT ![BucketIndex(g, key)] = <<key, <<animal>>>>]
    ELSE Append(g, <<key, <<animal>>>>)

\* lines 84-86: create the bucket on first encounter, append the record
AddToBucket(g, key, animal) ==
    IF \E i \in 1..Len(g) : g[i][1] = key
    THEN [g EXCEPT ![BucketIndex(g, key)] = <<key, Append(g[BucketIndex(g, key)][2], animal)>>]
    ELSE Append(g, <<key, <<animal>>>>)

\* lines 78-86: the loop, from the records left and the map built so far
RECURSIVE GroupLoop(_, _, _, _)
GroupLoop(rest, attr, sub, g) ==
    IF rest = <<>> THEN <<"ok", g>>
    ELSE LET key == GroupKey(Head(rest), attr, sub)
         IN  IF IsRaise(key) THEN key
             ELSE IF ~Hashable(key) THEN Raise("TypeError")
             ELSE GroupLoop(Tail(rest), attr, sub, AddToBucket(g, key, Head(rest)))

\* lines 66-88 with the records whose key is the default left out
group_by_attribute_skip_unknown(animal_list, attr, sub) ==
    GroupLoop(SelectSeq(animal_list, LAMBDA a : GroupKey(a, attr, sub) # Str("Unknown")),
              attr, sub, <<>>)

\* lines 66-88: <<"ok", bucket map>> or <<"raise", exception>>
group_by_attribute(animal_list, attr, sub) == GroupLoop(animal_list, attr, sub, <<>>)

----------------------------------------------------------------------------
(* Records the grouping is exercised on *)

AnimalA == Dict(<< <<"name", Str("A")>>, <<"characteristics", Dict(<< <<"skin_type", Str("Fur")>> >>)>> >>)
AnimalB == Dict(<< <<"name", Str("B")>>, <<"characteristics", Dict(<< <<"skin_type", Str("Scales")>> >>)>> >>)
AnimalC == Dict(<< <<"name", Str("C")>>, <<"characteristics", Dict(<<>>)>> >>)
AnimalD == Dict(<< <<"name", Str("D")>>, <<"locations", List(<<Str("Europe")>>)>> >>)
AnimalE == Dict(<< <<"name", Str("E")>>, <<"characteristics", Str("n/a")>> >>)
AnimalF == Dict(<< <<"name", Str("F")>>, <<"characteristics", Dict(<< <<"diet", Str("Omnivore")>>, <<"skin_type", Str("Fur")>> >>)>> >>)
AnimalG == Dict(<< <<"characteristics", Dict(<< <<"skin_type", Str("")>> >>)>> >>)

GroupAnimals == {AnimalA, AnimalB, AnimalC, AnimalD, AnimalE, AnimalF, AnimalG}
GroupAttributes == {"characteristics", "name", "locations"}
GroupSubAttributes == {"", "skin_type", "diet"}

Idle ==
    /\ animal_choice = ""
    /\ choices = <<>>
    /\ skin_type = ""
    /\ animal_html = <<>>
    /\ html_template = <<>>
    /\ final_html = <<>>
    /\ saved_file = <<"absent">>
    /\ query_calls = 0
    /\ fetch_calls = 0
    /\ iterations = 0
    /\ console = {}

InitGroup ==
    /\ pc = "group"
    /\ raised = ""
    /\ attribute \in GroupAttributes
    /\ sub_attribute \in GroupSubAttributes
    /\ animals \in SeqsUpTo(GroupAnimals, MaxAnimals)
    /\ grouped = <<>>
    /\ Idle

\* one call of group_by_attribute(animals, attribute, sub_attribute)
GroupCall ==
    /\ pc = "group"
    /\ \E r \in {group_by_attribute(animals, attribute, sub_attribute)} :
           /\ pc' = IF IsRaise(r) THEN "raised" ELSE "grouped"
           /\ raised' = IF IsRaise(r) THEN r[2] ELSE ""
           /\ grouped' = IF IsRaise(r) THEN <<>> ELSE r[2]
    /\ UNCHANGED <<attribute, sub_attribute, animal_choice, animals, choices, skin_type,
                   animal_html, html_template, final_html, saved_file, query_calls,
                   fetch_calls, iterations, console>>

NextGroup == GroupCall

SpecGroup == InitGroup /\ [][NextGroup]_vars

----------------------------------------------------------------------------
(* Claims on group_by_attribute *)

\* the elements of s at the positions in P, in order
Restrict(s, P) ==
    LET idx == SelectSeq([i \in 1..Len(s) |-> i], LAMBDA i : i \in P)
    IN  [j \in 1..Len(idx) |-> s[idx[j]]]

MinOf(P) == CHOOSE m \in P : \A n \in P : m <= n

\* g partitions the occurrences of s: every position of s is owned by one bucket,
\* each bucket is exactly the records at the positions it owns, in input order,
\* no bucket is empty and the buckets are ordered by the first position they own
PartitionOf(g, s) ==
    \E owner \in [1..Len(s) -> 1..Len(g)] :
        /\ \A k \in 1..Len(g) :
              /\ g[k][2] = Restrict(s, {i \in 1..Len(s) : owner[i] = k})
              /\ g[k][2] # <<>>
        /\ \A k, l \in 1..Len(g) :
              k < l => MinOf({i \in 1..Len(s) : owner[i] = k}) < MinOf({i \in 1..Len(s) : owner[i] = l})

DistinctKeys(g) == \A k, l \in 1..Len(g) : g[k][1] = g[l][1] => k = l

\* C1: whenever group_by_attribute returns, its buckets partition the input: every
\* record occurrence is in exactly one bucket, buckets keep input order, buckets
\* appear in order of first encounter, and empty input gives the empty mapping.
C1_GroupingIsPartition ==
    pc = "grouped" =>
        /\ DistinctKeys(grouped)
        /\ IF animals = <<>> THEN grouped = <<>> ELSE PartitionOf(grouped, animals)

\* a returned grouping of three records into two buckets, one holding two records
C1_Witness ==
    /\ pc = "grouped"
    /\ Len(animals) = 3
    /\ Len(grouped) = 2
    /\ \E k \in 1..Len(grouped) : Len(grouped[k][2]) = 2

\* the grouping data of a record is missing
GroupingDataMissing(animal) ==
    \/ ~HasKey(animal, attribute)
    \/ sub_attribute # "" /\ ~HasKey(Item(animal, attribute), sub_attribute)

ExpectedKey(animal) ==
    IF GroupingDataMissing(animal) THEN Str("Unknown")
    ELSE IF sub_attribute = "" THEN Item(animal, attribute)
    ELSE Item(Item(animal, attribute), sub_attribute)

IsSpecExample ==
    /\ animals = <<AnimalA, AnimalB, AnimalC>>
    /\ attribute = "characteristics"
    /\ sub_attribute = "skin_type"

\* C2: every record lands in the bucket keyed "Unknown" when its grouping data is
\* missing and in the bucket keyed by the extracted value otherwise, and in no
\* other bucket; A (Fur), B (Scales), C (no skin_type) grouped by
\* characteristics.skin_type give exactly Fur:[A], Scales:[B], Unknown:[C].
C2_UnknownBucket ==
    pc = "grouped" =>
        /\ \A i \in 1..Len(animals) : \A k \in 1..Len(grouped) :
              animals[i] \in Range(grouped[k][2]) <=> grouped[k][1] = ExpectedKey(animals[i])
        /\ \A i \in 1..Len(animals) : \E k \in 1..Len(grouped) :
              grouped[k][1] = ExpectedKey(animals[i])
        /\ IsSpecExample =>
              grouped = << <<Str("Fur"), <<AnimalA>>>>, <<Str("Scales"), <<AnimalB>>>>,
                           <<Str("Unknown"), <<AnimalC>>>> >>

\* the spec's example has been grouped
C2_Witness == pc = "grouped" /\ IsSpecExample /\ Len(grouped) = 3

----------------------------------------------------------------------------
(* Fragment formatter *)

\* "  " * level
RECURSIVE Indent(_)
Indent(level) == IF level = 0 THEN <<>> ELSE <<"  ">> \o Indent(level - 1)

\* lines 108-116
indented_line(line, level) == Indent(level) \o line \o <<"\n">>

\* one list item, emitted when the value is truthy (lines 135-150)
ListItem(label, value) ==
    IF Truthy(value)
    THEN indented_line(<<"<li><strong>" \o label \o ":</strong> ", value[2], "</li>">>, 3)
    ELSE <<>>

\* lines 119-153 with the location line moved behind the characteristics lines
format_characteristics_location_last(characteristics, location) ==
    IF ~IsDict(characteristics) THEN Raise("AttributeError")
    ELSE <<"ok",
           indented_line(<<"<ul>">>, 2)
           \o ListItem("Diet", py_get(characteristics, "diet", Str("")))
           \o ListItem("Type", py_get(characteristics, "type", Str("")))
           \o ListItem("Temperament", py_get(characteristics, "temperament", Str("")))
           \o ListItem("Average Litter Size", py_get(characteristics, "average_litter_size", Str("")))
           \o ListItem("Lifespan", py_get(characteristics, "lifespan", Str("")))
           \o ListItem("Location", location)
           \o indented_line(<<"</ul>">>, 2)>>

\* lines 119-153: <<"ok", text>>, or AttributeError when characteristics has no get
format_characteristics(characteristics, location) ==
    IF ~IsDict(characteristics) THEN Raise("AttributeError")
    ELSE <<"ok",
           indented_line(<<"<ul>">>, 2)
           \o ListItem("Diet", py_get(characteristics, "diet", Str("")))
           \o ListItem("Type", py_get(characteristics, "type", Str("")))
           \o ListItem("Location", location)
           \o ListItem("Temperament", py_get(characteristics, "temperament", Str("")))
           \o ListItem("Average Litter Size", py_get(characteristics, "average_litter_size", Str("")))
           \o ListItem("Lifespan", py_get(characteristics, "lifespan", Str("")))
           \o indented_line(<<"</ul>">>, 2)>>

\* lines 156-172
generate_animal_card(name, subtitle, body_html) ==
    <<"<li class=\"cards__item\">", "\n">>
    \o <<"  <div class=\"card__title\">", name[2], "</div>", "\n">>
    \o (IF Truthy(subtitle)
        THEN <<"  <div class=\"card__subtitle\"><em>", subtitle[2], "</em></div>", "\n">>
        ELSE <<>>)
    \o <<"  <div class=\"card__text\">", "\n">> \o body_html \o <<"</div>", "\n">>
    \o <<"</li>", "\n">>

\* line 184: animal_obj.get("locations", [])[0] if animal_obj.get("locations") else ""
\* value[0] of a non-empty value: the first element of a list, the first character
\* of a str, KeyError for a dict (its keys are strings, 0 is none of them)
FirstLocation(animal_obj) ==
    LET locations == py_get(animal_obj, "locations", List(<<>>))
    IN  IF IsRaise(locations) THEN locations
        ELSE IF ~Truthy(locations) THEN Str("")
        ELSE IF IsList(locations) THEN locations[2][1]
        ELSE IF IsStr(locations) THEN Str(SubSeq(locations[2], 1, 1))
        ELSE Raise("KeyError")

\* lines 175-187: <<"ok", card>> or <<"raise", exception>>
serialize_animal(animal_obj) ==
    LET name == py_get(animal_obj, "name", Str(""))
        characteristics == py_get(animal_obj, "characteristics", Dict(<<>>))
        location == FirstLocation(animal_obj)
        scientific_name ==
            py_get(py_get(animal_obj, "taxonomy", Dict(<<>>)), "scientific_name", Str(""))
        body_html == format_characteristics(characteristics, location)
    IN  IF IsRaise(name) THEN name
        ELSE IF IsRaise(location) THEN location
        ELSE IF IsRaise(scientific_name) THEN scientific_name
        ELSE IF IsRaise(body_html) THEN body_html
        ELSE <<"ok", generate_animal_card(name, scientific_name, body_html[2])>>

----------------------------------------------------------------------------
(* Records the formatter is exercised on: every combination of each recognized
   field absent, empty or set, and of characteristics, taxonomy or locations of another type *)

Absent == <<"absent">>

\* the dict of the entries whose value is not Absent, in the order given
RECURSIVE MakeItems(_)
MakeItems(entries) ==
    IF entries = <<>> THEN <<>>
    ELSE IF Head(entries)[2] = Absent THEN MakeItems(Tail(entries))
    ELSE <<Head(entries)>> \o MakeItems(Tail(entries))

Opt(value) == {Absent, Str(""), Str(value)}

CharacteristicsShapes ==
    {Absent, Str("n/a")} \cup
    {Dict(MakeItems(<< <<"diet", d>>, <<"skin_type", s>>, <<"type", t>>, <<"temperament", m>>,
                       <<"average_litter_size", a>>, <<"lifespan", l>> >>)) :
        d \in Opt("Omnivore"), s \in {Absent, Str("Fur")}, t \in Opt("Mammal"),
        m \in Opt("Shy"), a \in Opt("4"), l \in Opt("10 years")}

TaxonomyShapes ==
    {Absent, Str("n/a"), Dict(<<>>), Dict(<< <<"scientific_name", Str("")>> >>),
     Dict(<< <<"scientific_name", Str("Vulpes vulpes")>> >>)}

LocationsShapes ==
    {Absent, List(<<>>), List(<<Str("Europe")>>), List(<<Str("Asia"), Str("Europe")>>),
     List(<<Str("")>>), Str("Europe"), Dict(<< <<"Europe", Str("Fox")>> >>)}

FormatAnimals ==
    {Dict(MakeItems(<< <<"name", n>>, <<"taxonomy", t>>, <<"locations", l>>,
                       <<"characteristics", c>> >>)) :
        n \in Opt("Fox"), t \in TaxonomyShapes, l \in LocationsShapes,
        c \in CharacteristicsShapes}

InitSerialize ==
    /\ pc = "serialize"
    /\ raised = ""
    /\ attribute = ""
    /\ sub_attribute = ""
    /\ animals \in {<<a>> : a \in FormatAnimals}
    /\ grouped = <<>>
    /\ Idle

\* one call of serialize_animal(animals[1])
SerializeCall ==
    /\ pc = "serialize"
    /\ \E r \in {serialize_animal(animals[1])} :
           /\ pc' = IF IsRaise(r) THEN "raised" ELSE "serialized"
           /\ raised' = IF IsRaise(r) THEN r[2] ELSE ""
           /\ animal_html' = IF IsRaise(r) THEN <<>> ELSE r[2]
    /\ UNCHANGED <<attribute, sub_attribute, animal_choice, animals, grouped, choices,
                   skin_type, html_template, final_html, saved_file, query_calls,
                   fetch_calls, iterations, console>>

NextSerialize == SerializeCall

SpecSerialize == InitSerialize /\ [][NextSerialize]_vars

----------------------------------------------------------------------------
(* Claims on serialize_animal / format_characteristics *)

\* the string at a path of one or two keys, "" when a key is absent
Extracted(animal, k1, k2) ==
    IF ~HasKey(animal, k1) THEN ""
    ELSE IF k2 = "" THEN Item(animal, k1)[2]
    ELSE IF ~HasKey(Item(animal, k1), k2) THEN ""
    ELSE Item(Item(animal, k1), k2)[2]

\* the first entry of locations, "" when locations is absent or empty: the first
\* element of a list, the first character of a string
ExtractedLocation(animal) ==
    IF ~HasKey(animal, "locations") \/ ~Truthy(Item(animal, "locations")) THEN ""
    ELSE IF IsStr(Item(animal, "locations")) THEN SubSeq(Item(animal, "locations")[2], 1, 1)
    ELSE Item(animal, "locations")[2][1][2]

\* label and extracted value of the six list lines, in the fixed order
FieldLines(animal) ==
    << <<"Diet", Extracted(animal, "characteristics", "diet")>>,
       <<"Type", Extracted(animal, "characteristics", "type")>>,
       <<"Location", ExtractedLocation(animal)>>,
       <<"Temperament", Extracted(animal, "characteristics", "temperament")>>,
       <<"Average Litter Size", Extracted(animal, "characteristics", "average_litter_size")>>,
       <<"Lifespan", Extracted(animal, "characteristics", "lifespan")>> >>

Positions(text, piece) == {i \in 1..Len(text) : text[i] = piece}

LabelPiece(label) == "<li><strong>" \o label \o ":</strong> "

\* the text holds, at position i, a whole line of depth 3 for the label and value
IsFieldLineAt(text, i, label, value) ==
    /\ i > 3 /\ i + 3 <= Len(text)
    /\ SubSeq(text, i - 3, i + 3) = <<"  ", "  ", "  ", LabelPiece(label), value, "</li>", "\n">>
    /\ i = 4 \/ text[i - 4] = "\n"

\* C5: the card holds a list line for a field iff the field's extracted value is
\* non-empty, each such line once with its label and value, the lines in the order
\* Diet, Type, Location, Temperament, Average Litter Size, Lifespan; the subtitle
\* line is there iff scientific_name is non-empty and the title line always is.
C5_FieldLines ==
    pc = "serialized" =>
        LET animal == animals[1]
            lines == FieldLines(animal)
            sci == Extracted(animal, "taxonomy", "scientific_name")
            title == Positions(animal_html, "  <div class=\"card__title\">")
            subtitle == Positions(animal_html, "  <div class=\"card__subtitle\"><em>")
        IN  /\ \A f \in 1..Len(lines) :
                  LET at == Positions(animal_html, LabelPiece(lines[f][1]))
                  IN  /\ (at # {}) <=> (lines[f][2] # "")
                      /\ Cardinality(at) <= 1
                      /\ \A i \in at : IsFieldLineAt(animal_html, i, lines[f][1], lines[f][2])
            /\ \A f, h \in 1..Len(lines) : f < h =>
                  \A i \in Positions(animal_html, LabelPiece(lines[f][1])) :
                  \A j \in Positions(animal_html, LabelPiece(lines[h][1])) : i < j
            /\ Cardinality(title) = 1
            /\ \A i \in title : animal_html[i + 1] = Extracted(animal, "name", "")
            /\ (subtitle # {}) <=> (sci # "")
            /\ Cardinality(subtitle) <= 1
            /\ \A i \in subtitle : animal_html[i + 1] = sci /\ \A j \in title : j < i

\* a card of a record with some fields set, one empty and one absent
C5_Witness ==
    /\ pc = "serialized"
    /\ Extracted(animals[1], "characteristics", "diet") # ""
    /\ ExtractedLocation(animals[1]) # ""
    /\ Extracted(animals[1], "characteristics", "lifespan") # ""
    /\ HasKey(Item(animals[1], "characteristics"), "type")
    /\ Extracted(animals[1], "characteristics", "type") = ""
    /\ ~HasKey(Item(animals[1], "characteristics"), "temperament")
    /\ Extracted(animals[1], "taxonomy", "scientific_name") = ""

----------------------------------------------------------------------------
(* Placeholder substitution *)

\* config.PLACEHOLDER, character by character
PLACEHOLDER ==
    <<"_", "_", "R", "E", "P", "L", "A", "C", "E", "_", "A", "N", "I", "M", "A", "L", "S",
      "_", "I", "N", "F", "O", "_", "_">>

\* old in text
Contains(text, old) ==
    \E i \in 1..(Len(text) - Len(old) + 1) : SubSeq(text, i, i + Len(old) - 1) = old

\* text.replace(old, new, 1): only the first occurrence
RECURSIVE str_replace_first(_, _, _)
str_replace_first(text, old, new) ==
    IF Len(text) < Len(old) THEN text
    ELSE IF SubSeq(text, 1, Len(old)) = old
         THEN new \o SubSeq(text, Len(old) + 1, Len(text))
         ELSE <<Head(text)>> \o str_replace_first(Tail(text), old, new)

\* text.replace(old, new): every occurrence, left to right, not overlapping
RECURSIVE str_replace(_, _, _)
str_replace(text, old, new) ==
    IF Len(text) < Len(old) THEN text
    ELSE IF SubSeq(text, 1, Len(old)) = old
         THEN new \o str_replace(SubSeq(text, Len(old) + 1, Len(text)), old, new)
         ELSE <<Head(text)>> \o str_replace(Tail(text), old, new)

\* line 199
PlaceholderError ==
    <<"Error: Placeholder '">> \o PLACEHOLDER \o <<"' not found in HTML template.">>

\* lines 190-201 with the content appended when the placeholder is missing
replace_placeholder_appending(html, output) ==
    IF ~Contains(html, PLACEHOLDER)
    THEN [html |-> html \o output, printed |-> {PlaceholderError}]
    ELSE [html |-> str_replace(html, PLACEHOLDER, output), printed |-> {}]

\* lines 190-201: the text returned and the lines printed
replace_placeholder_with_html_content(html, output) ==
    IF ~Contains(html, PLACEHOLDER)
    THEN [html |-> html, printed |-> {PlaceholderError}]
    ELSE [html |-> str_replace(html, PLACEHOLDER, output), printed |-> {}]

----------------------------------------------------------------------------
(* Templates and contents the substitution is exercised on *)

TemplatePieces ==
    { PLACEHOLDER,
      SubSeq(PLACEHOLDER, 3, Len(PLACEHOLDER)),   \* with a token before it: overlapping tokens
      SubSeq(PLACEHOLDER, 1, 9),                  \* a partial token
      <<"_">>,
      <<"<", "p", ">">> }

RECURSIVE Flatten(_)
Flatten(ss) == IF ss = <<>> THEN <<>> ELSE Head(ss) \o Flatten(Tail(ss))

Templates == {Flatten(ps) : ps \in SeqsUpTo(TemplatePieces, MaxPieces)}

Contents == {<<>>, <<"X">>, <<"_">>, <<"<", "l", "i", ">", "\n">>, PLACEHOLDER}

InitSubstitute ==
    /\ pc = "substitute"
    /\ raised = ""
    /\ attribute = ""
    /\ sub_attribute = ""
    /\ animals = <<>>
    /\ grouped = <<>>
    /\ animal_choice = ""
    /\ choices = <<>>
    /\ skin_type = ""
    /\ animal_html \in Contents
    /\ html_template \in Templates
    /\ final_html = <<>>
    /\ saved_file = <<"absent">>
    /\ query_calls = 0
    /\ fetch_calls = 0
    /\ iterations = 0
    /\ console = {}

\* one call of replace_placeholder_with_html_content(html_template, animal_html)
SubstituteCall ==
    /\ pc = "substitute"
    /\ \E r \in {replace_placeholder_with_html_content(html_template, animal_html)} :
           /\ final_html' = r.html
           /\ console' = console \cup r.printed
    /\ pc' = "substituted"
    /\ UNCHANGED <<raised, attribute, sub_attribute, animal_choice, animals, grouped, choices,
                   skin_type, animal_html, html_template, saved_file, query_calls,
                   fetch_calls, iterations>>

NextSubstitute == SubstituteCall

SpecSubstitute == InitSubstitute /\ [][NextSubstitute]_vars

----------------------------------------------------------------------------
(* Claims on replace_placeholder_with_html_content *)

TokenLen == Len(PLACEHOLDER)

\* the positions where the whole token starts
Occurrences(text) ==
    {i \in 1..(Len(text) - TokenLen + 1) : SubSeq(text, i, i + TokenLen - 1) = PLACEHOLDER}

\* the occurrences a left-to-right scan replaces: no two overlap, and an occurrence
\* is skipped only when one that is replaced starts before it and overlaps it
Replaced(text) ==
    CHOOSE G \in SUBSET Occurrences(text) :
        /\ \A i, j \in G : i < j => j - i >= TokenLen
        /\ \A i \in Occurrences(text) \ G : \E j \in G : j < i /\ i - j < TokenLen

\* result is text with the token at each position of G replaced by content and every
\* character outside those tokens kept, in place
ReplacedExactlyAt(text, G, content, result) ==
    LET before(k) == Cardinality({g \in G : g < k})
        shift(k) == before(k) * (Len(content) - TokenLen)
        inToken(k) == \E g \in G : g <= k /\ k < g + TokenLen
    IN  /\ Len(result) = Len(text) + Cardinality(G) * (Len(content) - TokenLen)
        /\ \A g \in G :
              SubSeq(result, g + shift(g), g + shift(g) + Len(content) - 1) = content
        /\ \A k \in 1..Len(text) : ~inToken(k) => result[k + shift(k)] = text[k]

\* C3 as claimed: with the token present, exactly one occurrence of the token is
\* replaced by the content and every other part of the template is unchanged.
C3_ExactlyOneReplaced ==
    (pc = "substituted" /\ Contains(html_template, PLACEHOLDER)) =>
        \E i \in Occurrences(html_template) :
            ReplacedExactlyAt(html_template, {i}, animal_html, final_html)

\* C3 amended: with the token present, every occurrence a left-to-right scan meets
\* is replaced by the content and every other part of the template is unchanged;
\* it is exactly one occurrence when the template holds the token once.
C3_EveryOccurrenceReplaced ==
    (pc = "substituted" /\ Contains(html_template, PLACEHOLDER)) =>
        /\ ReplacedExactlyAt(html_template, Replaced(html_template), animal_html, final_html)
        /\ Replaced(html_template) # {}
        /\ Cardinality(Occurrences(html_template)) = 1 =>
              \E i \in Occurrences(html_template) :
                  ReplacedExactlyAt(html_template, {i}, animal_html, final_html)

\* a template holding the token twice, with text between, has been substituted
C3_Witness ==
    /\ pc = "substituted"
    /\ Cardinality(Replaced(html_template)) = 2
    /\ Len(html_template) > 2 * TokenLen
    /\ animal_html = <<"X">>

----------------------------------------------------------------------------
(* Console input *)

\* s.strip(), on the inputs of the model
py_strip(s) ==
    CASE s = "  " -> ""
      [] s = " fox " -> "fox"
      [] s = " Unknown " -> "Unknown"
      [] OTHER -> s

\* s.lower(), on the inputs of the model
py_lower(s) ==
    CASE s = "Fox" -> "fox"
      [] s = "Fur" -> "fur"
      [] OTHER -> s

\* the strings of the model in Python's order (code point by code point)
StringOrder == <<"", "Fur", "Unknown", "fur">>

StrLess(a, b) ==
    \E i, j \in 1..Len(StringOrder) : StringOrder[i] = a /\ StringOrder[j] = b /\ i < j

\* sorted(strings): a stable sort, each element at the position its rank gives it
py_sorted(strings) ==
    LET n == Len(strings)
        rank(i) == Cardinality({j \in 1..n : StrLess(strings[j], strings[i])})
                   + Cardinality({j \in 1..(i - 1) : strings[j] = strings[i]}) + 1
    IN  [p \in 1..n |-> strings[CHOOSE i \in 1..n : rank(i) = p]]

\* lines 211-218, one input: the choice returned, or "" with the re-prompt line printed
get_user_choice(raw) ==
    LET user_choice == py_lower(py_strip(raw))
    IN  IF user_choice # ""
        THEN [returned |-> TRUE, value |-> user_choice, printed |-> {}]
        ELSE [returned |-> FALSE, value |-> "",
              printed |-> {<<"Choice cannot be empty. Please type in an animal name.">>}]

\* lines 231-238: what get_user_choice_with_answers does before it reads input
PresentSkinTypes(skin_types) ==
    IF skin_types = <<>>
    THEN [returned |-> TRUE, skin_types |-> <<>>, printed |-> {<<"No skin types found.">>}]
    ELSE [returned |-> FALSE, skin_types |-> py_sorted(skin_types),
          printed |-> {<<"** Available skin types **">>}
                      \cup {<<"- ", skin>> : skin \in Range(skin_types)}]

InvalidChoice == <<"Invalid choice. Please select one from the list above.">>

\* lines 241-244 with an input that matches no key replaced by the first key
ResolveChoiceDefaulting(raw, skin_types) ==
    LET choice == py_strip(raw)
    IN  IF choice \in Range(skin_types)
        THEN [returned |-> TRUE, value |-> choice, printed |-> {}]
        ELSE [returned |-> TRUE, value |-> skin_types[1], printed |-> {InvalidChoice}]

\* lines 241-244, one input: the key returned, or the re-prompt line printed
ResolveChoice(raw, skin_types) ==
    LET choice == py_strip(raw)
    IN  IF choice \in Range(skin_types)
        THEN [returned |-> TRUE, value |-> choice, printed |-> {}]
        ELSE [returned |-> FALSE, value |-> "", printed |-> {InvalidChoice}]

----------------------------------------------------------------------------
(* Page compositor *)

\* lines 259-264
ResultBanner(query, key) ==
    <<"\n", "  <div class=\"card__result\">", "\n",
      "    <h2>You searched for: <em>", query, "</em></h2>", "\n",
      "    <p>Filtered by skin type: <strong>", key, "</strong></p>", "\n",
      "  </div>", "\n", "  ">>

\* lines 265-266: the cards appended one by one; a raise ends the loop
RECURSIVE SerializeAll(_, _)
SerializeAll(animal_data, output) ==
    IF animal_data = <<>> THEN <<"ok", output>>
    ELSE LET card == serialize_animal(Head(animal_data))
         IN  IF IsRaise(card) THEN card
             ELSE SerializeAll(Tail(animal_data), output \o card[2])

\* lines 247-267 with the cards appended in reverse order
RECURSIVE SerializeAllReversed(_, _)
SerializeAllReversed(animal_data, output) ==
    IF animal_data = <<>> THEN <<"ok", output>>
    ELSE LET card == serialize_animal(animal_data[Len(animal_data)])
         IN  IF IsRaise(card) THEN card
             ELSE SerializeAllReversed(SubSeq(animal_data, 1, Len(animal_data) - 1),
                                       output \o card[2])

generate_html_reversed(query, animal_data, key) ==
    SerializeAllReversed(animal_data, ResultBanner(query, key))

\* lines 247-267: <<"ok", text>> or <<"raise", exception>>
generate_html_by_filtered_attribute(query, animal_data, key) ==
    SerializeAll(animal_data, ResultBanner(query, key))

\* lines 270-276 with the query left out of the banner
generate_html_error_message_anonymous(query) ==
    <<"\n", "  <div class=\"card__error\">", "\n",
      "    <h2>Oops! We couldn't find the animal \"<em>", "</em>\".</h2>", "\n",
      "    <p>Please try another name or check your spelling.</p>", "\n",
      "  </div>", "\n", "  ">>

\* lines 270-276
generate_html_error_message(query) ==
    <<"\n", "  <div class=\"card__error\">", "\n",
      "    <h2>Oops! We couldn't find the animal \"<em>", query, "</em>\".</h2>", "\n",
      "    <p>Please try another name or check your spelling.</p>", "\n",
      "  </div>", "\n", "  ">>

----------------------------------------------------------------------------
(* Collaborators: the remote source, the template file, the output file *)

\* config.ATTRIBUTE, config.SUB_ATTRIBUTE
ATTRIBUTE == "characteristics"
SUB_ATTRIBUTE == "skin_type"

\* lines 25-46: the records of a response, [] with a line printed on a RequestException
load_remote_data(response) ==
    IF response[1] = "json"
    THEN [data |-> response[2], printed |-> {}]
    ELSE [data |-> <<>>, printed |-> {<<"Failed to fetch data from API: ", response[1]>>}]

\* lines 49-63, is_json False: the file's text, "" with a line printed when it cannot be read
load_local_data(file) ==
    IF file[1] = "text"
    THEN [data |-> file[2], printed |-> {}]
    ELSE [data |-> <<>>, printed |-> {<<"Error loading file ", file[1]>>}]

\* lines 91-105, is_json False: the file after the call and the line printed
save_data(writable, html, old_file) ==
    IF writable
    THEN [file |-> <<"file", html>>, printed |-> {<<"HTML saved successfully.">>}]
    ELSE [file |-> old_file, printed |-> {<<"Error saving file ", "IOError">>}]

Fox ==
    Dict(<< <<"name", Str("Fox")>>,
            <<"taxonomy", Dict(<< <<"scientific_name", Str("Vulpes vulpes")>> >>)>>,
            <<"locations", List(<<Str("Europe")>>)>>,
            <<"characteristics", Dict(<< <<"diet", Str("Omnivore")>>, <<"skin_type", Str("Fur")>> >>)>> >>)
Hare ==
    Dict(<< <<"name", Str("Hare")>>,
            <<"characteristics", Dict(<< <<"skin_type", Str("Fur")>>, <<"lifespan", Str("")>> >>)>> >>)
Nameless == Dict(<< <<"characteristics", Dict(<<>>)>> >>)
Blank == Dict(<< <<"name", Str("Blank")>>, <<"characteristics", Dict(<< <<"skin_type", Str("")>> >>)>> >>)
BadCharacteristics == Dict(<< <<"name", Str("E")>>, <<"characteristics", Str("n/a")>> >>)
BadTaxonomy ==
    Dict(<< <<"name", Str("T")>>, <<"taxonomy", Str("n/a")>>,
            <<"characteristics", Dict(<< <<"skin_type", Str("Fur")>> >>)>> >>)

FetchedAnimals == {Fox, Hare, Nameless, Blank, BadCharacteristics, BadTaxonomy}

Responses ==
    {<<"ConnectionError">>, <<"HTTPError">>}
    \cup {<<"json", data>> : data \in SeqsUpTo(FetchedAnimals, MaxFetched)}

TemplateFiles ==
    { <<"FileNotFoundError">>,
      <<"text", <<"<", "p", ">">> \o SubSeq(PLACEHOLDER, 1, 23)>>,
      <<"text", <<"<", "u", "l", ">">> \o PLACEHOLDER \o <<"<", "/", "u", "l", ">">> >>,
      <<"text", PLACEHOLDER \o <<"_">> \o PLACEHOLDER>> }

QueryInputs == {"", "  ", "Fox", " fox "}
SkinInputs == {"", "Fur", " Unknown ", "fur"}

----------------------------------------------------------------------------
(* Pipeline driver: main -> get_filtered_animals_html -> render_and_save_html *)

Keys(g) == [k \in 1..Len(g) |-> g[k][1][2]]

HasBucket(g, key) == \E k \in 1..Len(g) : g[k][1] = Str(key)

Bucket(g, key) == g[BucketIndex(g, Str(key))][2]

\* lines 300-305, after get_user_choice_with_answers returned selected
AfterSelection(query, g, selected) ==
    IF selected # "" /\ HasBucket(g, selected)
    THEN LET html == generate_html_by_filtered_attribute(query, Bucket(g, selected), selected)
         IN  IF IsRaise(html)
             THEN [kind |-> "raise", raised |-> html[2], animal_html |-> <<>>, printed |-> {}]
             ELSE [kind |-> "return", raised |-> "", animal_html |-> html[2], printed |-> {}]
    ELSE [kind |-> "again", raised |-> "", animal_html |-> <<>>,
          printed |-> {<<"Invalid skin type selected.">>}]

\* lines 290-299, after load_remote_data returned data: up to the first input
\* get_user_choice_with_answers reads
AfterFetch(query, data, old_grouped) ==
    IF data = <<>>
    THEN [kind |-> "return", raised |-> "", grouped |-> old_grouped, selected |-> FALSE,
          animal_html |-> generate_html_error_message(query),
          printed |-> {<<"No data found for ", query>>}]
    ELSE LET g == group_by_attribute(data, ATTRIBUTE, SUB_ATTRIBUTE)
         IN  IF IsRaise(g)
             THEN [kind |-> "raise", raised |-> g[2], grouped |-> old_grouped,
                   selected |-> FALSE, animal_html |-> <<>>, printed |-> {}]
             ELSE IF g[2] = <<>>
             THEN [kind |-> "again", raised |-> "", grouped |-> g[2], selected |-> FALSE,
                   animal_html |-> <<>>,
                   printed |-> {<<"No valid skin types found for this animal.">>}]
             ELSE LET shown == PresentSkinTypes(Keys(g[2]))
                  IN  IF shown.returned
                      THEN LET next == AfterSelection(query, g[2], "")
                           IN  [kind |-> next.kind, raised |-> next.raised, grouped |-> g[2],
                                selected |-> TRUE, animal_html |-> next.animal_html,
                                printed |-> shown.printed \cup next.printed]
                      ELSE [kind |-> "select", raised |-> "", grouped |-> g[2],
                            selected |-> FALSE, animal_html |-> <<>>,
                            printed |-> shown.printed]

Init ==
    /\ pc = "main"
    /\ raised = ""
    /\ attribute = ATTRIBUTE
    /\ sub_attribute = SUB_ATTRIBUTE
    /\ animals = <<>>
    /\ grouped = <<>>
    /\ Idle

\* lines 328, 286-287: main calls get_filtered_animals_html, whose first iteration
\* calls get_user_choice
Main ==
    /\ pc = "main"
    /\ pc' = "ask_query"
    /\ iterations' = 1
    /\ query_calls' = 1
    /\ UNCHANGED <<raised, attribute, sub_attribute, animal_choice, animals, grouped, choices,
                   skin_type, animal_html, html_template, final_html, saved_file,
                   fetch_calls, console>>

\* lines 211-218 and 287: one line read by get_user_choice
EnterQuery ==
    /\ pc = "ask_query"
    /\ \E raw \in QueryInputs :
          \E r \in {get_user_choice(raw)} :
              /\ pc' = IF r.returned THEN "fetch" ELSE "ask_query"
              /\ animal_choice' = IF r.returned THEN r.value ELSE animal_choice
              /\ console' = console \cup r.printed
    /\ UNCHANGED <<raised, attribute, sub_attribute, animals, grouped, choices, skin_type,
                   animal_html, html_template, final_html, saved_file, query_calls,
                   fetch_calls, iterations>>

\* lines 288-299 (and 300-305, 286-287 when no input is read): the fetch, the
\* grouping and the start of the selection
LoadRemoteData ==
    /\ pc = "fetch"
    /\ \E response \in Responses :
          \E loaded \in {load_remote_data(response)} :
          \E r \in {AfterFetch(animal_choice, loaded.data, grouped)} :
              /\ r.kind = "again" => iterations < MaxIterations
              /\ animals' = loaded.data
              /\ fetch_calls' = fetch_calls + 1
              /\ grouped' = r.grouped
              /\ raised' = r.raised
              /\ animal_html' = IF r.kind = "return" THEN r.animal_html ELSE animal_html
              /\ skin_type' = IF r.selected THEN "" ELSE skin_type
              /\ choices' = IF r.kind = "select" \/ r.selected THEN <<>> ELSE choices
              /\ console' = console \cup loaded.printed \cup r.printed
              /\ pc' = CASE r.kind = "return" -> "render"
                         [] r.kind = "raise" -> "raised"
                         [] r.kind = "select" -> "ask_skin"
                         [] OTHER -> "ask_query"
              /\ iterations' = IF r.kind = "again" THEN iterations + 1 ELSE iterations
              /\ query_calls' = IF r.kind = "again" THEN query_calls + 1 ELSE query_calls
    /\ UNCHANGED <<attribute, sub_attribute, animal_choice, html_template, final_html,
                   saved_file>>

\* lines 241-244 (and 300-305, 286-287 when the input is accepted): one line read by
\* get_user_choice_with_answers
EnterSkinType ==
    /\ pc = "ask_skin"
    /\ Len(choices) < MaxInputs
    /\ \E raw \in SkinInputs :
          \E c \in {ResolveChoice(raw, py_sorted(Keys(grouped)))} :
          \E r \in {AfterSelection(animal_choice, grouped, c.value)} :
              /\ choices' = Append(choices, raw)
              /\ IF ~c.returned
                 THEN /\ console' = console \cup c.printed
                      /\ UNCHANGED <<pc, raised, skin_type, animal_html, iterations, query_calls>>
                 ELSE /\ r.kind = "again" => iterations < MaxIterations
                      /\ skin_type' = c.value
                      /\ console' = console \cup c.printed \cup r.printed
                      /\ raised' = r.raised
                      /\ animal_html' = IF r.kind = "return" THEN r.animal_html ELSE animal_html
                      /\ pc' = CASE r.kind = "return" -> "render"
                                 [] r.kind = "raise" -> "raised"
                                 [] OTHER -> "ask_query"
                      /\ iterations' = IF r.kind = "again" THEN iterations + 1 ELSE iterations
                      /\ query_calls' = IF r.kind = "again" THEN query_calls + 1 ELSE query_calls
    /\ UNCHANGED <<attribute, sub_attribute, animal_choice, animals, grouped, html_template,
                   final_html, saved_file, fetch_calls>>

\* lines 308-318 and 329: render_and_save_html(animal_html)
RenderAndSaveHtml ==
    /\ pc = "render"
    /\ \E file \in TemplateFiles, writable \in BOOLEAN :
          \E loaded \in {load_local_data(file)} :
          \E replaced \in {replace_placeholder_with_html_content(loaded.data, animal_html)} :
          \E saved \in {save_data(writable, replaced.html, saved_file)} :
              /\ html_template' = loaded.data
              /\ final_html' = replaced.html
              /\ saved_file' = saved.file
              /\ console' = console \cup loaded.printed \cup replaced.printed \cup saved.printed
    /\ pc' = "done"
    /\ UNCHANGED <<raised, attribute, sub_attribute, animal_choice, animals, grouped, choices,
                   skin_type, animal_html, query_calls, fetch_calls, iterations>>

Next == Main \/ EnterQuery \/ LoadRemoteData \/ EnterSkinType \/ RenderAndSaveHtml

Spec == Init /\ [][Next]_vars

----------------------------------------------------------------------------
(* Claims on the pipeline *)

KeySet(g) == {g[k][1][2] : k \in 1..Len(g)}

Returned == pc \in {"render", "done"}

SaveError == <<"Error saving file ", "IOError">>

CardStart == "<li class=\"cards__item\">"

\* C4: when the template lacks the token, the diagnostic is printed, the text that
\* comes back is the template itself with nothing of the content in it, and
\* render_and_save_html goes on to hand that text to save_data, which writes it.
C4_MissingPlaceholderKeepsTemplate ==
    (pc = "done" /\ Occurrences(html_template) = {}) =>
        /\ final_html = html_template
        /\ PlaceholderError \in console
        /\ raised = ""
        /\ saved_file = <<"file", html_template>> \/ SaveError \in console

\* a page was written from a template that holds all of the token but its last
\* character, with cards composed
C4_Witness ==
    /\ pc = "done"
    /\ Occurrences(html_template) = {}
    /\ Len(html_template) > TokenLen
    /\ CardStart \in Range(animal_html)
    /\ saved_file = <<"file", html_template>>

\* C6: get_user_choice_with_answers keeps prompting while the (stripped) input is
\* no key, and returns the first input that is one, itself: never another key.
C6_SelectionIsFirstMatchingInput ==
    /\ pc = "ask_skin" =>
          \A i \in 1..Len(choices) : py_strip(choices[i]) \notin KeySet(grouped)
    /\ (pc # "ask_skin" /\ choices # <<>>) =>
          /\ skin_type = py_strip(choices[Len(choices)])
          /\ skin_type \in KeySet(grouped)
          /\ \A i \in 1..(Len(choices) - 1) : py_strip(choices[i]) \notin KeySet(grouped)

\* a selection returned at the second input, after one input that matched no key
C6_Witness ==
    /\ pc = "render"
    /\ Len(choices) = 2
    /\ choices[1] = "fur"
    /\ skin_type = "Unknown"
    /\ Len(grouped) >= 2

EmptyFetch == fetch_calls > 0 /\ animals = <<>>

\* C7: after a fetch that yields no record the run returns at once: no grouping,
\* no selection, no further prompt or fetch; the content is the error banner
\* naming the query, without a card; it is substituted into the template and saved.
C7_EmptyFetchGivesErrorBanner ==
    EmptyFetch =>
        /\ Returned
        /\ raised = ""
        /\ fetch_calls = iterations /\ query_calls = iterations
        /\ iterations = 1 => grouped = <<>> /\ choices = <<>> /\ skin_type = ""
        /\ "  <div class=\"card__error\">" \in Range(animal_html)
        /\ \E i \in 1..(Len(animal_html) - 1) :
              /\ animal_html[i] = "    <h2>Oops! We couldn't find the animal \"<em>"
              /\ animal_html[i + 1] = animal_choice
        /\ CardStart \notin Range(animal_html)
        /\ pc = "done" =>
              /\ Occurrences(html_template) # {} =>
                    ReplacedExactlyAt(html_template, Replaced(html_template), animal_html,
                                      final_html)
              /\ saved_file = <<"file", final_html>> \/ SaveError \in console

\* the error banner of a failed fetch was substituted into a template and saved
C7_Witness ==
    /\ pc = "done"
    /\ EmptyFetch
    /\ <<"Failed to fetch data from API: ", "HTTPError">> \in console
    /\ Cardinality(Occurrences(html_template)) = 1
    /\ saved_file = <<"file", final_html>>
    /\ animal_choice = "fox"

\* the records whose group key is the selected key, in input order
SelectedRecords == SelectSeq(animals, LAMBDA a : ExpectedKey(a) = Str(skin_type))

\* C9: after a non-empty fetch the content is the result banner naming the query
\* and the selected key, then one card per fetched record whose group key is the
\* selected key, in input order, and nothing else.
C9_BannerThenCardsOfSelectedBucket ==
    (Returned /\ animals # <<>>) =>
        /\ Len(animal_html) >= 14
        /\ animal_html[2] = "  <div class=\"card__result\">"
        /\ animal_html[4] = "    <h2>You searched for: <em>"
        /\ animal_html[5] = animal_choice
        /\ animal_html[8] = "    <p>Filtered by skin type: <strong>"
        /\ animal_html[9] = skin_type
        /\ CardStart \notin Range(SubSeq(animal_html, 1, 14))
        /\ SubSeq(animal_html, 15, Len(animal_html))
              = Flatten([i \in 1..Len(SelectedRecords) |-> serialize_animal(SelectedRecords[i])[2]])
        /\ Cardinality(Positions(animal_html, CardStart)) = Len(SelectedRecords)
        /\ SelectedRecords # <<>>

\* content composed of the cards of two different records
C9_Witness ==
    /\ Returned
    /\ Len(animals) = 2
    /\ Len(SelectedRecords) = 2
    /\ SelectedRecords[1] # SelectedRecords[2]

InvalidSkinType == <<"Invalid skin type selected.">>

\* C10 as claimed: a run returns in its first iteration, after one query prompt and
\* one fetch; neither the "No valid skin types found" branch nor the "Invalid skin
\* type selected" fall-through is ever taken.
C10_ReturnsInFirstIteration ==
    /\ <<"No valid skin types found for this animal.">> \notin console
    /\ InvalidSkinType \notin console
    /\ Returned => iterations = 1 /\ query_calls = 1 /\ fetch_calls = 1

\* C10 amended: a non-empty fetched list groups into a non-empty bucket map and the
\* selection is a key of it, so the "No valid skin types found" branch is never
\* taken; the "Invalid skin type selected" fall-through is taken exactly when the
\* selected key is the empty string, and only then does the run begin another
\* iteration; each iteration begun has one query prompt and at most one fetch.
C10_AnotherIterationOnlyAfterEmptyKey ==
    /\ <<"No valid skin types found for this animal.">> \notin console
    /\ <<"No skin types found.">> \notin console
    /\ (animals # <<>> /\ pc \in {"ask_skin", "render", "done"}) => grouped # <<>>
    /\ (pc # "ask_skin" /\ choices # <<>>) => skin_type \in KeySet(grouped)
    /\ query_calls = iterations
    /\ fetch_calls <= iterations
    /\ Returned => fetch_calls = iterations
    /\ (iterations > 1) <=> (InvalidSkinType \in console)
    /\ (iterations > 1 /\ pc \in {"ask_query", "fetch"}) =>
          skin_type = "" /\ HasBucket(grouped, "")
    /\ (Returned /\ animals # <<>>) => skin_type # ""

\* a run that returned in its second iteration
C10_Witness ==
    /\ pc = "render"
    /\ iterations = 2
    /\ fetch_calls = 2
    /\ animals # <<>>

\* C8: no record shape makes grouping or formatting raise.
C8_NoRecordShapeIsFatal == raised = ""

====
